---- MODULE Spec2Model ----
(***************************************************************************)
(* Model of kernel/fs/fat32_mm.c (Tilck): the mount-time preparation of a  *)
(* FAT ramdisk for mmap (fat_ramdisk_prepare_for_mmap) and the per-call    *)
(* mapping loop (fat_mmap).  Addresses and offsets are in bytes, as in the *)
(* source.  The paging subsystem and the FAT decoder are collaborators:    *)
(* they are modelled by what the source relies on.                         *)
(***************************************************************************)
EXTENDS Integers, Sequences, FiniteSets, TLC

(* ------------------------------------------------------------------ *)
(* Program constants                                                   *)
(* ------------------------------------------------------------------ *)
PAGE_SIZE == 4096
PAGE_SHIFT == 12
ENOMEM == 12
EACCES == 13
ENODEV == 19
VFS_MM_DONT_MMAP == 1
\* Base of the kernel's linear mapping (scaled to fit TLC's integers).
KERNEL_BASE_VA == 268435456
\* FAT16 encodings of the bad-cluster value and of the first end-of-chain value.
FAT_BAD_CLUSTER == 65527
FAT_EOC_MIN == 65528

(* ------------------------------------------------------------------ *)
(* Bounds of the model                                                 *)
(* ------------------------------------------------------------------ *)
\* cluster sizes are 1..MaxClusterUnits half pages (2048, 4096, 6144, 8192)
MaxClusterUnits == 4
\* longest cluster chain of the file
MaxChainLen == 3
\* region offsets are 0..MaxOffPages pages, lengths 0..MaxLenPages pages
MaxOffPages == 2
MaxLenPages == 3
\* address spaces (page directories); each issues one fat_mmap call
NumPdirs == 2

HalfPage == PAGE_SIZE \div 2
ClusterSizes == { HalfPage * k : k \in 1..MaxClusterUnits }
MaxClusterSize == HalfPage * MaxClusterUnits
Clusters == 2..(MaxChainLen + 1)
PDirs == 1..NumPdirs
\* loop iterations of one fat_mmap call explored: enough for the offset to
\* pass the end of the longest region one page at a time
MaxIter == MaxOffPages + MaxLenPages + 2

\* Size of the ramdisk region handed to prepare: header page, the clusters,
\* one page of slack.
RamdiskSize == PAGE_SIZE + MaxChainLen * MaxClusterSize + PAGE_SIZE
RamdiskPA == 16 * PAGE_SIZE
HdrVA == KERNEL_BASE_VA + RamdiskPA

\* First-data-sector offsets of the image at boot: aligned, or one sector short.
AlignedDataOff == PAGE_SIZE
MisalignedDataOff == PAGE_SIZE - 512
\* Bytes used by the filesystem image: a page of headroom, half a page, none.
UsedChoices == { RamdiskSize - PAGE_SIZE, RamdiskSize - HalfPage, RamdiskSize }

\* The virtual range reserved for the mapping in address space p.
UserBase == 64 * PAGE_SIZE
VaddrOf(p) == UserBase + (p - 1) * PAGE_SIZE
\* Mappings an address space holds before any fat_mmap call (private, rw):
\* the page just below the reserved range and the page just above it.
PrivatePA == 8 * PAGE_SIZE
PreExisting(p) ==
  { [va |-> VaddrOf(p) - PAGE_SIZE, pa |-> PrivatePA, fl |-> {"US", "RW"}],
    [va |-> VaddrOf(p) + MaxLenPages * PAGE_SIZE,
     pa |-> PrivatePA + PAGE_SIZE, fl |-> {"US", "RW"}] }

\* The requested regions << um->off, um->len >>: every page-aligned one
\* within the bounds, and two that are not page-aligned.
Regions ==
  { << o * PAGE_SIZE, l * PAGE_SIZE >> : o \in 0..MaxOffPages, l \in 0..MaxLenPages }
    \cup { << 2000, 8000 >>, << 2000, 6000 >> }

MIN(a, b) == IF a < b THEN a ELSE b
ShiftR(x, n) == x \div (2 ^ n)
ShiftL(x, n) == x * (2 ^ n)
IS_PAGE_ALIGNED(x) == x % PAGE_SIZE = 0
KERNEL_VA_TO_PA(va) == va - KERNEL_BASE_VA

RECURSIVE SumSeq(_)
SumSeq(s) == IF s = <<>> THEN 0 ELSE Head(s) + SumSeq(Tail(s))

(* ------------------------------------------------------------------ *)
(* The FAT of the image                                                 *)
(* ------------------------------------------------------------------ *)
AscChain(n) == [i \in 1..n |-> i + 1]
DescChain(n) == [i \in 1..n |-> n + 2 - i]
ChainEnds == { "eoc", "bad", "cycle" }
\* The files of the model: contiguous chains with every terminator, and
\* fragmented (descending) chains that end properly.
Files == { << AscChain(n), e >> : n \in 1..MaxChainLen, e \in ChainEnds } \cup
         { << DescChain(n), "eoc" >> : n \in 2..MaxChainLen }

EndValue(seq, end) ==
  CASE end = "eoc" -> FAT_EOC_MIN
    [] end = "bad" -> FAT_BAD_CLUSTER
    [] OTHER -> seq[1]

\* The table: the entry of the i-th cluster of the chain names the (i+1)-th,
\* the last one holds the terminator; clusters outside the chain are free (0).
FatOf(seq, end) ==
  [c \in Clusters |->
     IF \E i \in 1..Len(seq) : seq[i] = c
       THEN LET i == CHOOSE j \in 1..Len(seq) : seq[j] = c
            IN IF i < Len(seq) THEN seq[i + 1] ELSE EndValue(seq, end)
       ELSE 0]

fat_is_bad_cluster(clu) == clu = FAT_BAD_CLUSTER
fat_is_end_of_clusterchain(clu) == clu >= FAT_EOC_MIN

VARIABLES
  cluster_size,   \* d->cluster_size
  fat,            \* the File Allocation Table of the image
  first_clu,      \* first cluster of the file entry
  data_off,       \* byte offset of the first data sector in the image
  boot_data_off,  \* the same, as the image was at boot
  used,           \* fat_calculate_used_bytes(hdr)
  extra_region,   \* system_mmap_check_for_extra_ramdisk_region(hdr)
  debug_build,    \* ASSERT() is compiled in
  mmap_support,   \* d->mmap_support
  prep_ret,       \* result of fat_ramdisk_prepare_for_mmap
  pinned,         \* bytes passed to retain_pageframes_mapped_at (0: not called)
  prep_log,       \* set_page_rw / fat_align_first_data_sector calls, in order
  rw_pages,       \* ramdisk pages currently writable in the kernel pdir
  pc,             \* "boot", "idle", "loop", "returned", "panic", "unmapped"
  um,             \* the user mapping of the call in progress
  off,            \* running file offset
  vaddr,          \* running virtual address
  clu,            \* current cluster
  tot_mapped_cnt, \* pages mapped so far in this call
  ret,            \* value returned by the last fat_mmap call
  iter,           \* loop iterations started in this call
  map_log,        \* map_pages calls of this call, in order
  unmap_log,      \* unmap_pages_permissive calls of this call
  fat_reads,      \* fat_read_fat_entry calls of this call
  assert_failed,  \* an ASSERT of this call did not hold
  bad_fetched,    \* fat_read_fat_entry returned a bad-cluster value in this call
  pagetable,      \* per address space: the set of page mappings
  munmap_call,    \* the fat_munmap call made: its arguments and its result
  teardown_log    \* generic_fs_munmap calls, with the status each returned

mountvars == << cluster_size, fat, first_clu, data_off, boot_data_off, used,
                extra_region, debug_build, mmap_support, prep_ret, pinned,
                prep_log, rw_pages >>
callvars == << pc, um, off, vaddr, clu, tot_mapped_cnt, ret, iter, map_log,
               unmap_log, fat_reads, assert_failed, bad_fetched, pagetable >>
munmapvars == << munmap_call, teardown_log >>
vars == << mountvars, callvars, munmapvars >>

\* What prepare finds at boot: the image's first data sector offset, the
\* bytes it uses, and whether a spare page follows the ramdisk.
BootImages ==
  [data_off : { AlignedDataOff, MisalignedDataOff }, used : UsedChoices,
   extra : BOOLEAN]
\* Every file is explored on an aligned image and on one that prepare
\* repairs; every boot image is explored with a two-cluster file.
TypicalBootImages ==
  { [data_off |-> AlignedDataOff, used |-> RamdiskSize - PAGE_SIZE,
     extra |-> FALSE],
    [data_off |-> MisalignedDataOff, used |-> RamdiskSize - PAGE_SIZE,
     extra |-> FALSE] }
TypicalFile == << AscChain(2), "eoc" >>

NoUm == [vaddr |-> 0, off |-> 0, len |-> 0, pdir |-> 1,
         directory |-> FALSE, flags |-> 0]
NoMunmap == [vaddrp |-> 0, len |-> 0, ret |-> 0]

Init ==
  /\ cluster_size \in ClusterSizes
  /\ \E f \in Files, b \in BootImages :
       /\ f = TypicalFile \/ b \in TypicalBootImages
       /\ fat = FatOf(f[1], f[2])
       /\ first_clu = f[1][1]
       /\ data_off = b.data_off
       /\ used = b.used
       /\ extra_region = b.extra
  /\ boot_data_off = data_off
  /\ debug_build \in BOOLEAN
  /\ mmap_support = FALSE
  /\ prep_ret = 0
  /\ pinned = 0
  /\ prep_log = <<>>
  /\ rw_pages = {}
  /\ pc = "boot"
  /\ um = NoUm
  /\ off = 0
  /\ vaddr = 0
  /\ clu = 0
  /\ tot_mapped_cnt = 0
  /\ ret = 0
  /\ iter = 0
  /\ map_log = <<>>
  /\ unmap_log = <<>>
  /\ fat_reads = 0
  /\ assert_failed = FALSE
  /\ bad_fetched = FALSE
  /\ pagetable = [p \in PDirs |-> PreExisting(p)]
  /\ munmap_call = NoMunmap
  /\ teardown_log = <<>>

(* ------------------------------------------------------------------ *)
(* fat_ramdisk_prepare_for_mmap                                         *)
(* ------------------------------------------------------------------ *)
\* lines 18-27: the extra 4k region after the ramdisk enlarges rd_size
ExtraRegionSize(extra, rd_size) ==
  IF extra THEN rd_size + PAGE_SIZE ELSE rd_size

\* a slip: only the size is checked, not the alignment
ClusterSizeUnsupported_NoAlign(cs) == cs < PAGE_SIZE

\* line 29: cluster sizes the mmap implementation cannot support
ClusterSizeUnsupported(cs) == cs < PAGE_SIZE \/ ~IS_PAGE_ALIGNED(cs)

\* a slip: the frames are retained only after the aligned-image return
RetainedBytes_AfterTypical(path, rd_size) ==
  IF path \in {"size", "typ"} THEN 0 ELSE rd_size

\* line 34: bytes retained by retain_pageframes_mapped_at, given how far
\* the function got ("size": returned at line 31, "typ": line 37,
\* "room": line 81, "fix": line 93)
RetainedBytes(path, rd_size) == IF path = "size" THEN 0 ELSE rd_size

\* a slip: any non-negative headroom is accepted
HeadroomMissing_Negative(rd_size, used_bytes) == rd_size - used_bytes < 0

\* line 79: less than one page of headroom after the used bytes
HeadroomMissing(rd_size, used_bytes) == rd_size - used_bytes < PAGE_SIZE

fat_is_first_data_sector_aligned(doff, align) == doff % align = 0
\* shifts the data region up to the next multiple of align
fat_align_first_data_sector(doff, align) ==
  IF doff % align = 0 THEN doff ELSE doff + (align - (doff % align))

\* lines 84-85 and 89-90: one set_page_rw call per page of [hdr, hdr + rd_size)
RECURSIVE SetRwLoop(_, _, _)
SetRwLoop(va, va_end, rw) ==
  IF va < va_end
    THEN << [op |-> "set_page_rw", va |-> va, rw |-> rw] >>
           \o SetRwLoop(va + PAGE_SIZE, va_end, rw)
    ELSE <<>>

\* a slip: the pages are write-protected again before the data is shifted
RepairCalls_ProtectFirst(va_begin, va_end) ==
  SetRwLoop(va_begin, va_end, TRUE)
    \o SetRwLoop(va_begin, va_end, FALSE)
    \o << [op |-> "fat_align_first_data_sector", va |-> va_begin, rw |-> TRUE] >>

\* lines 84-90: the repair, as the sequence of calls it makes
RepairCalls(va_begin, va_end) ==
  SetRwLoop(va_begin, va_end, TRUE)
    \o << [op |-> "fat_align_first_data_sector", va |-> va_begin, rw |-> TRUE] >>
    \o SetRwLoop(va_begin, va_end, FALSE)

\* The path prepare takes: where it returns.
PreparePath(cs, doff, used_bytes, rd_size) ==
  IF ClusterSizeUnsupported(cs) THEN "size"
  ELSE IF fat_is_first_data_sector_aligned(doff, PAGE_SIZE) THEN "typ"
  ELSE IF rd_size < used_bytes THEN "verify"
  ELSE IF HeadroomMissing(rd_size, used_bytes) THEN "room"
  ELSE "fix"

\* Pages left writable by a sequence of set_page_rw calls.
WritableAfter(log) ==
  { v \in { log[i].va : i \in 1..Len(log) } :
      \E i \in 1..Len(log) :
        /\ log[i].op = "set_page_rw" /\ log[i].va = v /\ log[i].rw
        /\ \A j \in (i + 1)..Len(log) :
             ~(log[j].op = "set_page_rw" /\ log[j].va = v) }

\* The mount code enables the capability only when prepare succeeded.
MountEnablesMmap(rc) == rc = 0

fat_ramdisk_prepare_for_mmap ==
  /\ pc = "boot"
  /\ LET rd_size == ExtraRegionSize(extra_region, RamdiskSize)
         path == PreparePath(cluster_size, data_off, used, rd_size)
         log == IF path = "fix"
                  THEN RepairCalls(HdrVA, HdrVA + rd_size) ELSE <<>>
         rc == IF path \in {"typ", "fix"} THEN 0 ELSE -1
     IN /\ pinned' = RetainedBytes(path, rd_size)
        /\ prep_log' = log
        /\ rw_pages' = WritableAfter(log)
        /\ data_off' = IF path = "fix"
                         THEN fat_align_first_data_sector(data_off, PAGE_SIZE)
                         ELSE data_off
        /\ used' = IF path = "fix"
                     THEN used + (data_off' - data_off) ELSE used
        /\ prep_ret' = rc
        /\ mmap_support' = IF path = "verify" THEN FALSE
                           ELSE MountEnablesMmap(rc)
        /\ pc' = IF path = "verify" THEN "panic" ELSE "idle"
  /\ UNCHANGED << cluster_size, fat, first_clu, boot_data_off, extra_region,
                  debug_build >>
  /\ UNCHANGED << um, off, vaddr, clu, tot_mapped_cnt, ret, iter, map_log,
                  unmap_log, fat_reads, assert_failed, bad_fetched, pagetable >>
  /\ UNCHANGED munmapvars

(* ------------------------------------------------------------------ *)
(* Collaborators of fat_mmap                                            *)
(* ------------------------------------------------------------------ *)
fat_get_first_cluster == first_clu

\* Pointer (kernel virtual address) to the data of a cluster.
fat_get_pointer_to_cluster_data(c) == HdrVA + data_off + (c - 2) * cluster_size

\* The FAT entry of a cluster; reading the entry of a value that is no
\* cluster of the table reads memory outside it and may yield anything:
\* a cluster number, the bad-cluster value or an end-of-chain value.
fat_read_fat_entry(c) ==
  IF c \in DOMAIN fat THEN { fat[c] }
  ELSE { 2, FAT_BAD_CLUSTER, FAT_EOC_MIN }

PagesAt(va, pa, n, fl) ==
  { [va |-> va + i * PAGE_SIZE, pa |-> pa + i * PAGE_SIZE, fl |-> fl] :
      i \in 0..(n - 1) }

\* map_pages: maps the first k of the pg_count pages and returns k.
map_pages(pt, va, pa, k, fl) == pt \cup PagesAt(va, pa, k, fl)

\* unmap_pages_permissive: removes whatever is mapped in the n pages at va.
unmap_pages_permissive(pt, va, n) ==
  { e \in pt : ~(\E i \in 0..(n - 1) : e.va = va + i * PAGE_SIZE) }

(* ------------------------------------------------------------------ *)
(* fat_mmap                                                             *)
(* ------------------------------------------------------------------ *)
off_begin == um.off
off_end == um.off + um.len

\* a slip: the directory check comes first
EntryGuard_DirFirst(support, directory, flags) ==
  IF directory THEN "EACCES"
  ELSE IF ~support THEN "ENODEV"
  ELSE IF (flags \div VFS_MM_DONT_MMAP) % 2 = 1 THEN "DONT_MMAP"
  ELSE "walk"

\* lines 106-113: the entry guards, first match wins
EntryGuard(support, directory, flags) ==
  IF ~support THEN "ENODEV"
  ELSE IF directory THEN "EACCES"
  ELSE IF (flags \div VFS_MM_DONT_MMAP) % 2 = 1 THEN "DONT_MMAP"
  ELSE "walk"

GuardResult(g) ==
  CASE g = "ENODEV" -> -ENODEV
    [] g = "EACCES" -> -EACCES
    [] OTHER -> 0

\* line 123: are we past the end of the mapped region?
PastRegionEnd(o, o_end) == o >= o_end

\* line 127: does this cluster belong to the mapped region?
ClusterInRegion(c_end_off, o_begin) == c_end_off > o_begin

\* lines 132-136: the offset after clipping to the region's start
ClippedOff(o, o_begin) == IF o < o_begin THEN o_begin ELSE o

\* lines 132-137: the data pointer after clipping; the source advances it
\* by off_begin - off after having assigned off = off_begin
ClippedData(data, o, o_begin) ==
  IF o < o_begin
    THEN LET o1 == o_begin IN data + (o_begin - o1)
    ELSE data

\* line 145: pages to map in this iteration
PgCount(c_end_off, o_end, o) == ShiftR(MIN(c_end_off, o_end) - o, PAGE_SHIFT)

\* a slip: the rollback spans one page more than the call has mapped
RollbackCount_OneMore(tot, mapped_cnt) == tot + mapped_cnt + 1

\* lines 154-157: pages unmapped from um->vaddr on a shortfall
RollbackCount(tot, mapped_cnt) == tot

\* a slip: the address advances by one page whatever the count
NextVaddr_OnePage(va, pg_count) == va + PAGE_SIZE

\* line 161: the next virtual address
NextVaddr(va, pg_count) == va + ShiftL(pg_count, PAGE_SHIFT)

\* line 162: the offset after the mapped pages
NextOff(o, pg_count) == o + ShiftL(pg_count, PAGE_SHIFT)

\* line 166: ASSERT((off % d->cluster_size) == 0)
OffAligned(o, cs) == o % cs = 0

\* a slip: a chain that ends before the region's end is reported a failure
EndOfChainResult_Short(o, o_end) == IF o < o_end THEN -ENOMEM ELSE 0

\* lines 180-182: result when the chain ends
EndOfChainResult(o, o_end) == 0

RangeFree(pt, va, len) ==
  \A e \in pt : ~(va <= e.va /\ e.va < va + len)

\* The calls explored: the first address space maps any region of the file;
\* each further address space then maps the same region of the same handle.
CallOrder(p, o, l, dir, fl) ==
  IF pc = "idle" THEN p = 1
  ELSE /\ p = um.pdir + 1
       /\ o = um.off /\ l = um.len /\ dir = um.directory /\ fl = um.flags

fat_mmap_entry ==
  /\ pc \in {"idle", "returned"}
  /\ \E r \in Regions, p \in PDirs, dir \in BOOLEAN,
        fl \in {0, VFS_MM_DONT_MMAP} :
     LET o == r[1]
         l == r[2]
     IN
       /\ CallOrder(p, o, l, dir, fl)
       /\ RangeFree(pagetable[p], VaddrOf(p), l)
       /\ um' = [vaddr |-> VaddrOf(p), off |-> o, len |-> l, pdir |-> p,
                 directory |-> dir, flags |-> fl]
       /\ LET g == EntryGuard(mmap_support, dir, fl)
          IN /\ pc' = IF g = "walk" THEN "loop" ELSE "returned"
             /\ ret' = GuardResult(g)
             /\ clu' = IF g = "walk" THEN fat_get_first_cluster ELSE 0
       /\ vaddr' = VaddrOf(p)
  /\ off' = 0
  /\ tot_mapped_cnt' = 0
  /\ iter' = 0
  /\ map_log' = <<>>
  /\ unmap_log' = <<>>
  /\ fat_reads' = 0
  /\ assert_failed' = FALSE
  /\ bad_fetched' = FALSE
  /\ UNCHANGED << mountvars, pagetable, munmapvars >>

\* lines 123-124: the region's end is reached, the loop breaks, line 182
fat_mmap_break ==
  /\ pc = "loop"
  /\ iter < MaxIter
  /\ PastRegionEnd(off, off_end)
  /\ pc' = "returned"
  /\ ret' = 0
  /\ iter' = iter + 1
  /\ UNCHANGED << mountvars, um, off, vaddr, clu, tot_mapped_cnt, map_log,
                  unmap_log, fat_reads, assert_failed, bad_fetched, pagetable >>
  /\ UNCHANGED munmapvars

\* lines 174-180: fetch the next cluster, check it, decide whether to loop.
\* off_fail: the ASSERT of line 166 was evaluated and did not hold.
FetchNext(o, off_fail) ==
  IF off_fail /\ debug_build
    THEN /\ pc' = "panic"
         /\ assert_failed' = TRUE
         /\ UNCHANGED << clu, fat_reads, ret, bad_fetched >>
    ELSE \E nxt \in fat_read_fat_entry(clu) :
           /\ clu' = nxt
           /\ fat_reads' = fat_reads + 1
           /\ assert_failed' =
                (assert_failed \/ off_fail \/ fat_is_bad_cluster(nxt))
           /\ bad_fetched' = (bad_fetched \/ fat_is_bad_cluster(nxt))
           /\ IF fat_is_bad_cluster(nxt) /\ debug_build
                THEN pc' = "panic" /\ UNCHANGED ret
              ELSE IF fat_is_end_of_clusterchain(nxt)
                THEN pc' = "returned" /\ ret' = EndOfChainResult(o, off_end)
              ELSE pc' = "loop" /\ UNCHANGED ret

\* lines 168-172: the whole cluster lies before the region
fat_mmap_skip ==
  /\ pc = "loop"
  /\ iter < MaxIter
  /\ ~PastRegionEnd(off, off_end)
  /\ ~ClusterInRegion(off + cluster_size, off_begin)
  /\ off' = off + cluster_size
  /\ iter' = iter + 1
  /\ FetchNext(off', FALSE)
  /\ UNCHANGED << mountvars, um, vaddr, tot_mapped_cnt, map_log, unmap_log,
                  pagetable, munmapvars >>

\* a slip: the mapping is requested writable
MapCall_Writable(va, data, pg_count, k, o) ==
  [vaddr |-> va, paddr |-> KERNEL_VA_TO_PA(data), pg_count |-> pg_count,
   mapped |-> k, clu |-> clu, cidx |-> fat_reads, off |-> o,
   fl |-> {"US", "SHARED", "RW"}]

\* lines 147-151: the map_pages call, with PAGING_FL_US | PAGING_FL_SHARED
MapCall(va, data, pg_count, k, o) ==
  [vaddr |-> va, paddr |-> KERNEL_VA_TO_PA(data), pg_count |-> pg_count,
   mapped |-> k, clu |-> clu, cidx |-> fat_reads, off |-> o,
   fl |-> {"US", "SHARED"}]

\* lines 127-166 and 174-180: the cluster overlaps the region and map_pages
\* maps every page asked for
fat_mmap_map ==
  /\ pc = "loop"
  /\ iter < MaxIter
  /\ ~PastRegionEnd(off, off_end)
  /\ ClusterInRegion(off + cluster_size, off_begin)
  /\ LET clu_end_off == off + cluster_size
         data == ClippedData(fat_get_pointer_to_cluster_data(clu), off, off_begin)
         o1 == ClippedOff(off, off_begin)
         pg_count == PgCount(clu_end_off, off_end, o1)
         call == MapCall(vaddr, data, pg_count, pg_count, o1)
     IN /\ map_log' = Append(map_log, call)
        /\ pagetable' = [pagetable EXCEPT ![um.pdir] =
                           map_pages(@, call.vaddr, call.paddr, pg_count, call.fl)]
        /\ vaddr' = NextVaddr(vaddr, pg_count)
        /\ off' = NextOff(o1, pg_count)
        /\ tot_mapped_cnt' = tot_mapped_cnt + pg_count
        /\ FetchNext(off', ~OffAligned(off', cluster_size))
  /\ iter' = iter + 1
  /\ UNCHANGED << mountvars, um, unmap_log, munmapvars >>

\* lines 127-159: map_pages maps k < pg_count pages; roll back and fail
fat_mmap_enomem ==
  /\ pc = "loop"
  /\ iter < MaxIter
  /\ ~PastRegionEnd(off, off_end)
  /\ ClusterInRegion(off + cluster_size, off_begin)
  /\ LET clu_end_off == off + cluster_size
         data == ClippedData(fat_get_pointer_to_cluster_data(clu), off, off_begin)
         o1 == ClippedOff(off, off_begin)
         pg_count == PgCount(clu_end_off, off_end, o1)
     IN \E k \in 0..(pg_count - 1) :
          LET call == MapCall(vaddr, data, pg_count, k, o1)
              n == RollbackCount(tot_mapped_cnt, k)
          IN /\ map_log' = Append(map_log, call)
             /\ unmap_log' = Append(unmap_log, [vaddr |-> um.vaddr, count |-> n])
             /\ pagetable' = [pagetable EXCEPT ![um.pdir] =
                   unmap_pages_permissive(
                     map_pages(@, call.vaddr, call.paddr, k, call.fl),
                     um.vaddr, n)]
             /\ off' = o1
  /\ pc' = "returned"
  /\ ret' = -ENOMEM
  /\ iter' = iter + 1
  /\ UNCHANGED << mountvars, um, vaddr, clu, tot_mapped_cnt, fat_reads,
                  assert_failed, bad_fetched, munmapvars >>

(* ------------------------------------------------------------------ *)
(* fat_munmap                                                           *)
(* ------------------------------------------------------------------ *)
\* The statuses the general teardown path may hand back: success, a failure.
TeardownStatuses == { 0, -ENOMEM }

\* generic_fs_munmap: releases the pages of [vaddrp, vaddrp + len) in the
\* address space of the mapping.
generic_fs_munmap(pt, vaddrp, len) ==
  unmap_pages_permissive(pt, vaddrp, ShiftR(len, PAGE_SHIFT))

\* The unmap requests explored for the mapping just made: all of it, or
\* its first page.
MunmapArgs ==
  { [vaddrp |-> um.vaddr, len |-> um.len],
    [vaddrp |-> um.vaddr, len |-> PAGE_SIZE] }

\* a slip: the teardown path is invoked whatever the mount supports
MunmapDelegates_Always(support) == TRUE

\* line 190: only a mount with mmap support reaches generic_fs_munmap
MunmapDelegates(support) == support

\* lines 185-194; the descriptor unmapped is one whose fat_mmap call did not
\* fail, or one of a mount that refuses
fat_munmap ==
  /\ pc = "returned"
  /\ ret = 0 \/ ~mmap_support
  /\ \E a \in MunmapArgs, st \in TeardownStatuses :
       IF MunmapDelegates(mmap_support)
         THEN /\ teardown_log' =
                   Append(teardown_log,
                          [um |-> um, vaddrp |-> a.vaddrp, len |-> a.len,
                           result |-> st])
              /\ pagetable' = [pagetable EXCEPT ![um.pdir] =
                                 generic_fs_munmap(@, a.vaddrp, a.len)]
              /\ munmap_call' =
                   [vaddrp |-> a.vaddrp, len |-> a.len, ret |-> st]
         ELSE /\ munmap_call' =
                   [vaddrp |-> a.vaddrp, len |-> a.len, ret |-> -ENODEV]
              /\ UNCHANGED << teardown_log, pagetable >>
  /\ pc' = "unmapped"
  /\ UNCHANGED << mountvars, um, off, vaddr, clu, tot_mapped_cnt, ret, iter,
                  map_log, unmap_log, fat_reads, assert_failed, bad_fetched >>

Next ==
  \/ fat_ramdisk_prepare_for_mmap
  \/ fat_mmap_entry
  \/ fat_mmap_break
  \/ fat_mmap_skip
  \/ fat_mmap_map
  \/ fat_mmap_enomem
  \/ fat_munmap
Spec == Init /\ [][Next]_vars

(* ------------------------------------------------------------------ *)
(* Vocabulary of the properties                                         *)
(* ------------------------------------------------------------------ *)
\* The file's cluster chain as the FAT stores it, up to its terminator.
RECURSIVE ChainFrom(_, _)
ChainFrom(c, seen) ==
  IF c \notin DOMAIN fat \/ c \in seen THEN <<>>
  ELSE << c >> \o ChainFrom(fat[c], seen \cup {c})
FileChain == ChainFrom(first_clu, {})
FileLast == fat[FileChain[Len(FileChain)]]
FileEndsProperly == fat_is_end_of_clusterchain(FileLast)
FileExtent == Len(FileChain) * cluster_size

RegionAligned == IS_PAGE_ALIGNED(um.off) /\ IS_PAGE_ALIGNED(um.len)
CallStarted == pc \in {"loop", "returned", "panic"}
CallEnded == pc \in {"returned", "panic"}
\* the call in progress got past the entry guards
Walked == CallStarted /\ mmap_support /\ ~um.directory /\ um.flags = 0
Shortfall == \E i \in 1..Len(map_log) : map_log[i].mapped < map_log[i].pg_count
\* virtual pages map_pages mapped during this call
CallVas ==
  UNION { { map_log[i].vaddr + j * PAGE_SIZE : j \in 0..(map_log[i].mapped - 1) } :
            i \in 1..Len(map_log) }
PagesMappedByCall == SumSeq([i \in 1..Len(map_log) |-> map_log[i].mapped])
MappedVas(p) == { e.va : e \in pagetable[p] }
BootUsed == used - (data_off - boot_data_off)
BootMisaligned == boot_data_off % PAGE_SIZE # 0
ClusterSizeValid == cluster_size >= PAGE_SIZE /\ cluster_size % PAGE_SIZE = 0
SetRwCalls == { i \in 1..Len(prep_log) : prep_log[i].op = "set_page_rw" }
AlignCalls ==
  { i \in 1..Len(prep_log) : prep_log[i].op = "fat_align_first_data_sector" }
\* pages of the file that intersect [lo, hi)
PagesCovering(lo, hi) ==
  IF lo < hi
    THEN Cardinality({ p \in 0..(hi \div PAGE_SIZE) :
                         p * PAGE_SIZE < hi /\ (p + 1) * PAGE_SIZE > lo })
    ELSE 0
\* physical address of the page holding file bytes [i * PAGE_SIZE, ...)
FilePagePA(i) ==
  LET per == cluster_size \div PAGE_SIZE
  IN KERNEL_VA_TO_PA(fat_get_pointer_to_cluster_data(FileChain[(i \div per) + 1]))
       + (i % per) * PAGE_SIZE

(* ------------------------------------------------------------------ *)
(* C1                                                                   *)
(* ------------------------------------------------------------------ *)
\* C1: when a map_pages call of a fat_mmap call maps fewer pages than asked
\* (also a partial count), the call returns -ENOMEM and no page mapped by
\* the call is left in the address space.
C1_AllOrNothing ==
  (pc = "returned" /\ Walked /\ Shortfall) =>
     /\ ret = -ENOMEM
     /\ CallVas \cap MappedVas(um.pdir) = {}

(* ------------------------------------------------------------------ *)
(* C2                                                                   *)
(* ------------------------------------------------------------------ *)
\* C2: on a file whose chain ends properly, when every map_pages call
\* succeeds, fat_mmap returns 0 and has mapped as many pages as cover the
\* intersection of the region with the file's extent.
C2_ExactCoverage ==
  (CallEnded /\ Walked /\ FileEndsProperly /\ ~Shortfall) =>
     /\ pc = "returned"
     /\ ret = 0
     /\ PagesMappedByCall =
          PagesCovering(um.off, MIN(um.off + um.len, FileExtent))

Scenario4 ==
  /\ cluster_size = PAGE_SIZE
  /\ Len(FileChain) = 3 /\ FileEndsProperly
  /\ um.off = 2000 /\ um.len = 8000

\* C4: with cluster size = page size, a three-cluster file and the request
\* [2000, 10000), fat_mmap succeeds with three pages mapped, holding file
\* bytes [0,4096), [4096,8192), [8192,12288), at um->vaddr onwards, and no
\* assertion fails.
C4_Scenario ==
  (Scenario4 /\ Walked /\ CallEnded /\ ~Shortfall) =>
     /\ pc = "returned"
     /\ ret = 0
     /\ ~assert_failed
     /\ PagesMappedByCall = 3
     /\ \A i \in 0..2 :
          \E e \in pagetable[um.pdir] :
            e.va = um.vaddr + i * PAGE_SIZE /\ e.pa = FilePagePA(i)

(* ------------------------------------------------------------------ *)
(* C5                                                                   *)
(* ------------------------------------------------------------------ *)
NothingDone ==
  /\ map_log = <<>>
  /\ unmap_log = <<>>
  /\ fat_reads = 0
  /\ pagetable[um.pdir] = PreExisting(um.pdir)

\* C5: the entry guards are taken in order: no mmap support gives -ENODEV;
\* else a directory handle gives -EACCES; else the reserve-only flag gives 0;
\* in all three nothing is mapped or unmapped and the FAT is not read.
C5_EntryGuards ==
  CallStarted =>
    /\ ~mmap_support => (pc = "returned" /\ ret = -ENODEV /\ NothingDone)
    /\ (mmap_support /\ um.directory) =>
         (pc = "returned" /\ ret = -EACCES /\ NothingDone)
    /\ (mmap_support /\ ~um.directory /\ um.flags = VFS_MM_DONT_MMAP) =>
         (pc = "returned" /\ ret = 0 /\ NothingDone)

\* a directory handle with the reserve-only flag on a mount without support
C5_Witness ==
  /\ pc = "returned" /\ ~mmap_support /\ um.directory
  /\ um.flags = VFS_MM_DONT_MMAP /\ um.len > 0 /\ ret = -ENODEV

(* ------------------------------------------------------------------ *)
(* C6                                                                   *)
(* ------------------------------------------------------------------ *)
\* C6: with a cluster size below the page size or no multiple of it, prepare
\* fails without pinning, write-enabling or shifting anything, the mmap
\* capability is and stays disabled, and every fat_mmap call returns -ENODEV
\* without a map_pages call.
C6_BadClusterSize ==
  (pc # "boot" /\ ~ClusterSizeValid) =>
     /\ prep_ret = -1
     /\ pinned = 0
     /\ prep_log = <<>>
     /\ rw_pages = {}
     /\ data_off = boot_data_off
     /\ ~mmap_support
     /\ pc \in {"idle", "returned", "unmapped"}
     /\ pc = "returned" => (ret = -ENODEV /\ map_log = <<>>)

\* a second fat_mmap call refused on a mount whose clusters are 1.5 pages
C6_Witness ==
  /\ cluster_size > PAGE_SIZE /\ ~ClusterSizeValid
  /\ pc = "returned" /\ um.pdir = 2 /\ ret = -ENODEV

(* ------------------------------------------------------------------ *)
(* C7                                                                   *)
(* ------------------------------------------------------------------ *)
\* C7: no map_pages call is made for a cluster whose file byte range
\* [i * cluster_size, (i + 1) * cluster_size) ends at or before the region's
\* start or starts at or after the region's end (stated on the files whose
\* chain ends with an end-of-chain value).
C7_OnlyOverlappingClusters ==
  (Walked /\ FileEndsProperly) =>
    \A i \in 1..Len(map_log) :
      /\ (map_log[i].cidx + 1) * cluster_size > um.off
      /\ map_log[i].cidx * cluster_size < um.off + um.len

(* ------------------------------------------------------------------ *)
(* C8                                                                   *)
(* ------------------------------------------------------------------ *)
ZeroHeadroom ==
  /\ pc # "boot"
  /\ ClusterSizeValid
  /\ BootMisaligned
  /\ BootUsed = RamdiskSize

RepairRefused ==
  /\ prep_ret = -1
  /\ SetRwCalls = {}
  /\ AlignCalls = {}
  /\ data_off = boot_data_off
  /\ ~mmap_support

\* C8 as claimed: a misaligned image whose used bytes equal the ramdisk size
\* makes prepare fail, whether or not an extra page follows the ramdisk.
C8_ZeroHeadroomAlways == ZeroHeadroom => RepairRefused

\* C8 as amended: the same, when no extra page follows the ramdisk.
C8_ZeroHeadroomNoExtra == (ZeroHeadroom /\ ~extra_region) => RepairRefused

C8_Witness == ZeroHeadroom /\ ~extra_region /\ pc = "idle" /\ prep_ret = -1

(* ------------------------------------------------------------------ *)
(* C9                                                                   *)
(* ------------------------------------------------------------------ *)
\* C9: on an image whose first data sector is page-aligned (cluster size
\* valid) prepare succeeds, retains the ramdisk's frames and changes
\* nothing: no set_page_rw call, no fat_align_first_data_sector call.
C9_AlignedImage ==
  (pc # "boot" /\ ClusterSizeValid /\ ~BootMisaligned) =>
     /\ prep_ret = 0
     /\ pinned >= RamdiskSize
     /\ SetRwCalls = {}
     /\ AlignCalls = {}
     /\ data_off = boot_data_off
     /\ BootUsed = used

C9_Witness ==
  /\ pc = "idle" /\ ClusterSizeValid /\ ~BootMisaligned
  /\ prep_ret = 0 /\ pinned = RamdiskSize + PAGE_SIZE

(* ------------------------------------------------------------------ *)
(* C10                                                                  *)
(* ------------------------------------------------------------------ *)
\* the loop was left because the fetched FAT entry is an end-of-chain value
ExitByEndOfChain ==
  pc = "returned" /\ Walked /\ fat_is_end_of_clusterchain(clu)

\* C10: when the chain ends before the region's end, fat_mmap returns 0,
\* unmaps nothing and every page it mapped stays mapped; when the chain ends
\* before the region's start it has mapped no page.
C10_EndOfChain ==
  (ExitByEndOfChain /\ FileEndsProperly /\ off < off_end) =>
     /\ ret = 0
     /\ unmap_log = <<>>
     /\ CallVas \subseteq MappedVas(um.pdir)
     /\ FileExtent <= um.off => (map_log = <<>> /\ PagesMappedByCall = 0)

\* a two-page file mapped by a request that extends past its end
C10_Witness ==
  /\ ExitByEndOfChain /\ FileEndsProperly /\ off < off_end
  /\ PagesMappedByCall = 2 /\ ret = 0

(* ------------------------------------------------------------------ *)
(* C11                                                                  *)
(* ------------------------------------------------------------------ *)
\* C11: a fat_mmap call in which fat_read_fat_entry has returned a
\* bad-cluster value never returns to its caller, with 0 or with an error:
\* in every call that has returned, no fetched value was a bad cluster.
C11_BadClusterFatal ==
  (pc = "returned" /\ Walked) => ~bad_fetched

(* ------------------------------------------------------------------ *)
(* C12                                                                  *)
(* ------------------------------------------------------------------ *)
\* physical pages of the ramdisk region, the extra page included
InRamdisk(pa) == RamdiskPA <= pa /\ pa < RamdiskPA + RamdiskSize + PAGE_SIZE

\* C12: every map_pages call of fat_mmap asks for exactly the flags
\* PAGING_FL_US | PAGING_FL_SHARED, and in no address space is a page of
\* the ramdisk mapped with write permission: the mappings of ramdisk pages
\* are user-accessible, shared and read-only.
C12_SharedReadOnly ==
  /\ \A i \in 1..Len(map_log) : map_log[i].fl = {"US", "SHARED"}
  /\ \A p \in PDirs :
       \A e \in pagetable[p] :
         InRamdisk(e.pa) => ("RW" \notin e.fl /\ e.fl = {"US", "SHARED"})

\* two address spaces map the same physical page of the file at once, each
\* next to its own private writable pages
C12_Witness ==
  /\ pc = "returned" /\ um.pdir = 2 /\ ret = 0 /\ um.off = 0
  /\ \E e1 \in pagetable[1], e2 \in pagetable[2] :
       /\ e1.pa = e2.pa /\ InRamdisk(e1.pa)
       /\ e1.va # e2.va
       /\ e1.pa = FilePagePA(0)

(* ------------------------------------------------------------------ *)
(* C13                                                                  *)
(* ------------------------------------------------------------------ *)
\* C13: on a mount without mmap support fat_munmap returns -ENODEV and
\* generic_fs_munmap is not called; on a mount with it, generic_fs_munmap
\* is called exactly once, with the descriptor, the address and the length
\* fat_munmap was given, and fat_munmap returns the status it returned.
C13_MunmapDelegates ==
  pc = "unmapped" =>
    IF ~mmap_support
      THEN /\ munmap_call.ret = -ENODEV
           /\ teardown_log = <<>>
      ELSE /\ Len(teardown_log) = 1
           /\ teardown_log[1].um = um
           /\ teardown_log[1].vaddrp = munmap_call.vaddrp
           /\ teardown_log[1].len = munmap_call.len
           /\ munmap_call.ret = teardown_log[1].result

\* the first page of a three-page mapping is unmapped and the teardown
\* path's failure status is handed back
C13_Witness ==
  /\ pc = "unmapped" /\ mmap_support
  /\ um.len = 3 * PAGE_SIZE /\ munmap_call.len = PAGE_SIZE
  /\ Len(teardown_log) = 1
  /\ munmap_call.ret = -ENOMEM

\* fat_munmap refused on a mount without mmap support
C13_WitnessUnsupported ==
  /\ pc = "unmapped" /\ ~mmap_support
  /\ munmap_call.ret = -ENODEV /\ munmap_call.len > 0

(* ------------------------------------------------------------------ *)
(* C14                                                                  *)
(* ------------------------------------------------------------------ *)
\* C14: after a successful fat_mmap call on a page-aligned region [a, b) of
\* a file whose chain ends properly, the k-th page mapped, at
\* um->vaddr + k * PAGE_SIZE, is backed by the physical page of the image
\* that holds file bytes [a + k * PAGE_SIZE, a + (k + 1) * PAGE_SIZE); so
\* when the region begins inside a cluster, the address given to map_pages
\* is the cluster's data advanced by a - (cluster's start offset).
C14_ZeroCopy ==
  (pc = "returned" /\ Walked /\ ret = 0 /\ RegionAligned /\ FileEndsProperly) =>
     \A k \in 0..(PagesMappedByCall - 1) :
       \E e \in pagetable[um.pdir] :
         /\ e.va = um.vaddr + k * PAGE_SIZE
         /\ e.pa = FilePagePA((um.off \div PAGE_SIZE) + k)

(* ------------------------------------------------------------------ *)
(* C15                                                                  *)
(* ------------------------------------------------------------------ *)
\* C15: on a mount with mmap support and a page-aligned region (one that
\* starts or ends inside a cluster or is empty included), the assertion of
\* line 166 holds after every mapping iteration: as long as no bad cluster
\* was fetched, no assertion of the call has failed, and the running offset
\* is a multiple of the cluster size each time the next cluster is fetched.
C15_OffsetAligned ==
  (Walked /\ RegionAligned /\ ~bad_fetched) =>
     /\ ~assert_failed
     /\ pc = "loop" => OffAligned(off, cluster_size)

(* ------------------------------------------------------------------ *)
(* C16                                                                  *)
(* ------------------------------------------------------------------ *)
\* bytes of [lo1, hi1) that lie in [lo2, hi2)
Overlap(lo1, hi1, lo2, hi2) ==
  LET lo == IF lo1 > lo2 THEN lo1 ELSE lo2
      hi == MIN(hi1, hi2)
  IN IF hi > lo THEN hi - lo ELSE 0

\* C16: in every map_pages call of fat_mmap the page count asked for, times
\* PAGE_SIZE, is at most the number of bytes that the current cluster's file
\* byte range [i * cluster_size, (i + 1) * cluster_size) shares with the
\* region [um->off, um->off + um->len) (stated on the files whose chain ends
\* with an end-of-chain value).
C16_PerClusterBound ==
  (Walked /\ FileEndsProperly) =>
    \A i \in 1..Len(map_log) :
      map_log[i].pg_count * PAGE_SIZE <=
        Overlap(map_log[i].cidx * cluster_size,
                (map_log[i].cidx + 1) * cluster_size,
                um.off, um.off + um.len)

(* ------------------------------------------------------------------ *)
(* C17                                                                  *)
(* ------------------------------------------------------------------ *)
\* prepare took the misaligned-with-headroom path and returned success
RepairRan ==
  pc # "boot" /\ ClusterSizeValid /\ BootMisaligned /\ prep_ret = 0
\* the pages of the ramdisk region [hdr, hdr + rd_size)
RegionPages ==
  { HdrVA + i * PAGE_SIZE :
      i \in 0..((ExtraRegionSize(extra_region, RamdiskSize) \div PAGE_SIZE) - 1) }

\* C17: when prepare repairs a misaligned image, fat_align_first_data_sector
\* is called exactly once, after every page of the ramdisk region was set
\* writable and before every one of them is set read-only again; and
\* whatever path prepare took, no page of the region is writable once it
\* is over.
C17_RepairOrdering ==
  /\ pc # "boot" => rw_pages = {}
  /\ RepairRan =>
       /\ Cardinality(AlignCalls) = 1
       /\ \A a \in AlignCalls :
            /\ \A v \in RegionPages :
                 /\ \E i \in 1..(a - 1) :
                      /\ prep_log[i].op = "set_page_rw"
                      /\ prep_log[i].va = v /\ prep_log[i].rw
                 /\ \E j \in (a + 1)..Len(prep_log) :
                      /\ prep_log[j].op = "set_page_rw"
                      /\ prep_log[j].va = v /\ ~prep_log[j].rw
            /\ \A i \in SetRwCalls : prep_log[i].rw <=> i < a

\* an image with an extra page after the ramdisk was repaired: every page,
\* the extra one included, was made writable and read-only again
C17_Witness ==
  /\ pc = "idle" /\ RepairRan /\ extra_region
  /\ data_off = PAGE_SIZE /\ boot_data_off # PAGE_SIZE
  /\ Len(prep_log) = 2 * Cardinality(RegionPages) + 1

(* ------------------------------------------------------------------ *)
(* C18                                                                  *)
(* ------------------------------------------------------------------ *)
\* prepare has returned, and returned failure
PrepareFailed == pc \notin {"boot", "panic"} /\ prep_ret = -1

\* C18: whenever prepare returns failure, for an invalid cluster size or for
\* a misaligned image with less than a page of headroom,
\* retain_pageframes_mapped_at has not been called: no frame is pinned.
C18_RetainOnlyOnSuccess == PrepareFailed => pinned = 0

(* ------------------------------------------------------------------ *)
(* C19                                                                  *)
(* ------------------------------------------------------------------ *)
\* virtual pages of an unmap_pages_permissive call
UnmapVas(c) == { c.vaddr + j * PAGE_SIZE : j \in 0..(c.count - 1) }
\* pages of [um->vaddr, um->vaddr + um->len rounded up to pages)
RegionVas ==
  { um.vaddr + j * PAGE_SIZE :
      j \in 0..(((um.len + PAGE_SIZE - 1) \div PAGE_SIZE) - 1) }

\* C19: when map_pages falls short, unmap_pages_permissive is called exactly
\* once, at um->vaddr, over pages this call mapped and inside the region's
\* virtual range; the mappings the address space held before the call stay;
\* the short map_pages call is the last one and no FAT entry is read after
\* it. Without a shortfall unmap_pages_permissive is not called.
C19_Rollback ==
  Walked =>
    /\ ~Shortfall => unmap_log = <<>>
    /\ Shortfall =>
         /\ pc = "returned"
         /\ Len(unmap_log) = 1
         /\ unmap_log[1].vaddr = um.vaddr
         /\ UnmapVas(unmap_log[1]) \subseteq CallVas
         /\ UnmapVas(unmap_log[1]) \subseteq RegionVas
         /\ PreExisting(um.pdir) \subseteq pagetable[um.pdir]
         /\ \A i \in 1..Len(map_log) :
              map_log[i].mapped < map_log[i].pg_count => i = Len(map_log)
         /\ fat_reads = map_log[Len(map_log)].cidx

\* the third cluster's map_pages call falls short after two pages were
\* mapped: those two are unmapped, the neighbouring private pages stay
C19_Witness ==
  /\ pc = "returned" /\ Walked /\ Shortfall
  /\ Len(map_log) = 3 /\ unmap_log[1].count = 2
  /\ um.pdir = 2

(* ------------------------------------------------------------------ *)
(* C20                                                                  *)
(* ------------------------------------------------------------------ *)
\* C20: on a mount with mmap support, for a page-aligned region and a chain
\* in which no bad cluster is met (a chain that cycles included), a fat_mmap
\* call that has started either has returned or is in its loop with a next
\* step to take, each iteration so far having advanced the running offset
\* by a page at least: the call never halts short of returning, and the
\* loop ends by the time the offset reaches the region's end.
C20_Terminates ==
  (Walked /\ RegionAligned /\ ~bad_fetched) =>
     \/ pc = "returned"
     \/ /\ pc = "loop"
        /\ iter < MaxIter
        /\ off >= iter * PAGE_SIZE
        /\ off < off_end + cluster_size
====
